---------------------------- MODULE Spec2Model ----------------------------
(***************************************************************************)
(* A model of the pygb emulator core: the CPU interpreter of src/cpu.py    *)
(* (registers, flags, memory, the two opcode tables, tick) and the frame   *)
(* loop of src/main.py (run, dump) with the display pass of src/lcd.py.    *)
(*                                                                         *)
(* Python values are modelled as integers.  A flag holds 1 (True), 0       *)
(* (False) or None, the placeholder the source assigns where a flag        *)
(* computation is missing.  A list index follows Python: -n..n-1 is valid  *)
(* and a negative index counts from the end; anything else raises.         *)
(* An exception is a tuple <<type, message, arg1, arg2>>; a handler that   *)
(* raises keeps the assignments it made before the raise.                  *)
(***************************************************************************)
EXTENDS Integers, Sequences, FiniteSets, TLC

VARIABLES
    boot,     \* the list cpu.BOOT as the import left it (from boot.gb, or synthesized)
    cpu,      \* the CPU object (its fields, and the outcome of the last tick)
    lcd,      \* the display target: "open" after LCD(cpu), "closed" after close()
    running,  \* run(): the loop flag
    clock,    \* run(): the cycle accumulator
    pc,       \* run(): position ("loop", "close", "dump", "done", "raised")
    crash,    \* the file crash.txt: <<>> when absent, else the sections written
    stderr,   \* messages printed by the OpNotImplemented handler
    events,   \* history: the dump() and lcd.close() calls run() made, in order
    before,   \* history: the CPU as the last two tick() calls found it, oldest first
    shown     \* history: the value of clock at the last lcd.update() call (0: none yet)

vars == <<boot, cpu, lcd, running, clock, pc, crash, stderr, events, before, shown>>

---------------------------------------------------------------------------
(* Python's integer operators, on unbounded two's-complement integers.     *)

RECURSIVE BitAnd(_, _)
BitAnd(a, b) ==
    IF a = 0 \/ b = 0 THEN 0
    ELSE IF a = -1 THEN b
    ELSE IF b = -1 THEN a
    ELSE (a % 2) * (b % 2) + 2 * BitAnd(a \div 2, b \div 2)

RECURSIVE BitOr(_, _)
BitOr(a, b) ==
    IF a = 0 THEN b
    ELSE IF b = 0 THEN a
    ELSE IF a = -1 \/ b = -1 THEN -1
    ELSE (IF a % 2 = 1 \/ b % 2 = 1 THEN 1 ELSE 0) + 2 * BitOr(a \div 2, b \div 2)

RECURSIVE BitXor(_, _)
BitXor(a, b) ==
    IF a = 0 THEN b
    ELSE IF b = 0 THEN a
    ELSE IF a = -1 THEN (-b) - 1
    ELSE IF b = -1 THEN (-a) - 1
    ELSE ((a + b) % 2) + 2 * BitXor(a \div 2, b \div 2)

Shl(a, n) == a * (2 ^ n)
Shr(a, n) == a \div (2 ^ n)

(* bool(x), int(x == y) and the like: 1 for True, 0 for False *)
Bool(p) == IF p THEN 1 ELSE 0

(* None, and what Python does with a flag that may hold it *)
None == -1
Truthy(f) == f = 1
Not(f) == IF f = 1 THEN 0 ELSE 1
OrZero(f) == IF f = 1 THEN 1 ELSE 0

(* list indexing: lst[i] on a list of length n *)
ValidIndex(i, n) == (-n) <= i /\ i < n
Index(i, n) == IF i < 0 THEN i + n ELSE i

---------------------------------------------------------------------------
(* Exceptions *)

NoExc == <<"", "", 0, 0>>
IndexError == <<"IndexError", "list index out of range", 0, 0>>
TypeError == <<"TypeError", "unsupported operand type: NoneType", 0, 0>>
ValueError == <<"ValueError", "chr() arg not in range(0x110000)", 0, 0>>
OpNotImplemented(msg, a) == <<"OpNotImplemented", msg, a, 0>>
Exception(msg, a, b) == <<"Exception", msg, a, b>>
Raise(s, e) == [s EXCEPT !.exc = e]
Raised(s) == s.exc # NoExc
(* str(e) *)
Str(e) == <<e[2], e[3], e[4]>>

---------------------------------------------------------------------------
(* The boot image.  BOOT is the list synthesized when boot.gb is absent; *)
(* FromBootGb(file) is the list taken from a boot.gb of 0x100 bytes or     *)
(* more.                                                                   *)

BootCode ==
    << \h31, \hFE, \hFF,
       \h3E, \h01,
       \hCB, \h7F,
       \h37,
       \h3E, \h01,
       \h06, \h00,
       \h0E, \h13,
       \h16, \h00,
       \h1E, \hD8,
       \h26, \h01,
       \h2E, \h4D >>

BOOT == BootCode \o [i \in 1..(\hFE - Len(BootCode)) |-> 0] \o << \hE0, \h50 >>

(* list(fp.read(0x100)) with "the DRM" overwritten by NOPs *)
FromBootGb(file) ==
    [i \in 1..256 |-> IF (i - 1) \in { \hE9, \hEA, \hFA, \hFB } THEN 0 ELSE file[i]]

---------------------------------------------------------------------------
(* Memory.  cpu.rom is the cartridge image, kept as the function of its   *)
(* nonzero cells; cpu.ram is kept as the function of the cells written     *)
(* since construction, over the contents __init__ gave the list.           *)

RamSize == 65536

RomAt(rom, a) == IF a \in DOMAIN rom THEN rom[a] ELSE 0

IoDefaults ==
    (\hFF10 :> \h80) @@ (\hFF11 :> \hBF) @@ (\hFF12 :> \hF3) @@ (\hFF14 :> \hBF) @@
    (\hFF16 :> \h3F) @@ (\hFF19 :> \hBF) @@ (\hFF1A :> \h7F) @@ (\hFF1B :> \hFF) @@
    (\hFF1C :> \h9F) @@ (\hFF1E :> \hBF) @@ (\hFF20 :> \hFF) @@ (\hFF23 :> \hBF) @@
    (\hFF24 :> \h77) @@ (\hFF25 :> \hF3) @@ (\hFF26 :> \hF1) @@ (\hFF40 :> \h91) @@
    (\hFF44 :> 144) @@ (\hFF47 :> \hFC) @@ (\hFF48 :> \hFF) @@ (\hFF49 :> \hFF)

InitRam(rom, a) ==
    IF a < \h8000 THEN RomAt(rom, a)
    ELSE IF a \in DOMAIN IoDefaults THEN IoDefaults[a]
    ELSE 0

RamAt(s, i) ==
    LET a == Index(i, RamSize)
    IN  IF a \in DOMAIN s.ram THEN s.ram[a] ELSE InitRam(s.rom, a)

RamSet(s, i, v) == [s EXCEPT !.ram = (Index(i, RamSize) :> v) @@ @]

(* self.ram[i] = v, raising IndexError first when i is no index of the list *)
RamStore(s, i, v) == IF ValidIndex(i, RamSize) THEN RamSet(s, i, v) ELSE Raise(s, IndexError)

---------------------------------------------------------------------------
(* The register pair views *)

(* variant: the flags are packed into bits 3..0 *)
AF_low_nibble(s) ==
    BitOr(BitOr(BitOr(BitOr(Shl(s.A, 8), Shl(OrZero(s.FLAG_Z), 3)),
                      Shl(OrZero(s.FLAG_N), 2)),
                Shl(OrZero(s.FLAG_H), 1)),
          OrZero(s.FLAG_C))

AF(s) ==
    BitOr(BitOr(BitOr(BitOr(Shl(s.A, 8), Shl(OrZero(s.FLAG_Z), 7)),
                      Shl(OrZero(s.FLAG_N), 6)),
                Shl(OrZero(s.FLAG_H), 5)),
          Shl(OrZero(s.FLAG_C), 4))

set_AF(s, val) ==
    [s EXCEPT !.A = BitAnd(Shr(val, 8), \hFF),
              !.FLAG_Z = Bool(BitAnd(val, \h80) # 0),
              !.FLAG_N = Bool(BitAnd(val, \h40) # 0),
              !.FLAG_H = Bool(BitAnd(val, \h20) # 0),
              !.FLAG_C = Bool(BitAnd(val, \h10) # 0)]

(* variant: the two bytes are stored the other way round *)
set_BC_swapped(s, val) == [s EXCEPT !.C = BitAnd(Shr(val, 8), \hFF), !.B = BitAnd(val, \hFF)]

BC(s) == BitOr(Shl(s.B, 8), s.C)
set_BC(s, val) == [s EXCEPT !.B = BitAnd(Shr(val, 8), \hFF), !.C = BitAnd(val, \hFF)]

DE(s) == BitOr(Shl(s.D, 8), s.E)
set_DE(s, val) == [s EXCEPT !.D = BitAnd(Shr(val, 8), \hFF), !.E = BitAnd(val, \hFF)]

HL(s) == BitOr(Shl(s.H, 8), s.L)
set_HL(s, val) == [s EXCEPT !.H = BitAnd(Shr(val, 8), \hFF), !.L = BitAnd(val, \hFF)]

(* getattr(self, reg) / setattr(self, reg, val) over the names of Reg *)
CanGet(s, reg) == reg = "MEM_AT_HL" => ValidIndex(HL(s), RamSize)

getattr(s, reg) ==
    CASE reg = "A" -> s.A [] reg = "B" -> s.B [] reg = "C" -> s.C [] reg = "D" -> s.D
      [] reg = "E" -> s.E [] reg = "H" -> s.H [] reg = "L" -> s.L
      [] reg = "AF" -> AF(s) [] reg = "BC" -> BC(s) [] reg = "DE" -> DE(s)
      [] reg = "HL" -> HL(s) [] reg = "SP" -> s.SP [] reg = "PC" -> s.PC
      [] reg = "MEM_AT_HL" -> RamAt(s, HL(s))

setattr(s, reg, val) ==
    CASE reg = "A" -> [s EXCEPT !.A = val] [] reg = "B" -> [s EXCEPT !.B = val]
      [] reg = "C" -> [s EXCEPT !.C = val] [] reg = "D" -> [s EXCEPT !.D = val]
      [] reg = "E" -> [s EXCEPT !.E = val] [] reg = "H" -> [s EXCEPT !.H = val]
      [] reg = "L" -> [s EXCEPT !.L = val]
      [] reg = "AF" -> set_AF(s, val) [] reg = "BC" -> set_BC(s, val)
      [] reg = "DE" -> set_DE(s, val) [] reg = "HL" -> set_HL(s, val)
      [] reg = "SP" -> [s EXCEPT !.SP = val] [] reg = "PC" -> [s EXCEPT !.PC = val]
      [] reg = "MEM_AT_HL" -> RamStore(s, HL(s), val)

(* the flags a handler assigns together *)
Flags(s, z, n, h, c) == [s EXCEPT !.FLAG_Z = z, !.FLAG_N = n, !.FLAG_H = h, !.FLAG_C = c]

---------------------------------------------------------------------------
(* 3.3.1 / 3.3.2 Loads *)

_ld_val_to_reg(s, val, reg) == setattr(s, reg, val)

_ld_reg_from_reg(s, r1, r2) ==
    IF CanGet(s, r2) THEN setattr(s, r1, getattr(s, r2)) ELSE Raise(s, IndexError)

op36(s, n) == RamStore(s, HL(s), n)

_ld_val_to_a(s, val) == [s EXCEPT !.A = val]

(* self._ld_val_to_a(self.ram[i]) *)
LdAFromRam(s, i) ==
    IF ValidIndex(i, RamSize) THEN _ld_val_to_a(s, RamAt(s, i)) ELSE Raise(s, IndexError)

_ld_a_to_mem(s, val) == RamStore(s, val, s.A)

opF2(s) == LdAFromRam(s, \hFF00 + s.C)
opE2(s) == RamStore(s, \hFF00 + s.C, s.A)

op3A(s) == LET t == LdAFromRam(s, HL(s)) IN IF Raised(t) THEN t ELSE set_HL(t, HL(t) - 1)
op2A(s) == LET t == LdAFromRam(s, HL(s)) IN IF Raised(t) THEN t ELSE set_HL(t, HL(t) + 1)
op32(s) == LET t == RamStore(s, HL(s), s.A) IN IF Raised(t) THEN t ELSE set_HL(t, HL(t) - 1)
op22(s) == LET t == RamStore(s, HL(s), s.A) IN IF Raised(t) THEN t ELSE set_HL(t, HL(t) + 1)

opE0(s, val) ==
    IF val = 1
    THEN IF s.A \in 0..(\h110000 - 1)
         THEN RamStore([s EXCEPT !.out = Append(@, s.A)], \hFF00 + val, s.A)
         ELSE Raise(s, ValueError)
    ELSE RamStore(s, \hFF00 + val, s.A)

opF0(s, val) == LdAFromRam(s, \hFF00 + val)

opF8(s, val) == Flags(set_HL(s, s.SP + val), 0, 0, None, None)

op08(s, val) == RamStore(s, val, s.SP)

---------------------------------------------------------------------------
(* The stack *)

(* variant: the low byte is stored below the high byte, at SP - 2 *)
_push16_low_below(s, reg) ==
    LET val == getattr(s, reg)
        t1 == RamStore(s, s.SP - 1, Shr(BitAnd(val, \hFF00), 8))
        t2 == RamStore(t1, s.SP - 2, BitAnd(val, \hFF))
    IN  IF Raised(t1) THEN t1
        ELSE IF Raised(t2) THEN t2
        ELSE [t2 EXCEPT !.SP = @ - 2]

_push16(s, reg) ==
    LET val == getattr(s, reg)
        t1 == RamStore(s, s.SP - 1, Shr(BitAnd(val, \hFF00), 8))
        t2 == RamStore(t1, s.SP, BitAnd(val, \hFF))
    IN  IF Raised(t1) THEN t1
        ELSE IF Raised(t2) THEN t2
        ELSE [t2 EXCEPT !.SP = @ - 2]

(* variant: the word is read low byte at SP, high byte at SP + 1 *)
_pop16_at_sp(s, reg) ==
    IF ValidIndex(s.SP, RamSize) /\ ValidIndex(s.SP + 1, RamSize)
    THEN LET val == BitOr(Shl(RamAt(s, s.SP + 1), 8), RamAt(s, s.SP))
             t == setattr(s, reg, val)
         IN  [t EXCEPT !.SP = @ + 2]
    ELSE Raise(s, IndexError)

_pop16(s, reg) ==
    IF ValidIndex(s.SP + 1, RamSize) /\ ValidIndex(s.SP + 2, RamSize)
    THEN LET val == BitOr(Shl(RamAt(s, s.SP + 1), 8), RamAt(s, s.SP + 2))
             t == setattr(s, reg, val)
         IN  [t EXCEPT !.SP = @ + 2]
    ELSE Raise(s, IndexError)

---------------------------------------------------------------------------
(* 3.3.3 8-bit arithmetic on A *)

_add(s, val) ==
    LET a == BitAnd(s.A + val, \hFF)
    IN  Flags([s EXCEPT !.A = a], Bool(a = 0), 0, None, None)

_adc(s, val) ==
    IF s.FLAG_C = None THEN Raise(s, TypeError)
    ELSE LET a == BitAnd(s.A + (val + s.FLAG_C), \hFF)
         IN  Flags([s EXCEPT !.A = a], Bool(a = 0), 0, None, None)

_sub(s, val) ==
    LET d == s.A - val
        a == BitAnd(d, \hFF)
    IN  Flags([s EXCEPT !.A = a], Bool(a = 0), 1, None, Bool(d < 0))

_sbc(s, val) ==
    IF s.FLAG_C = None THEN Raise(s, TypeError)
    ELSE LET a == BitAnd(s.A - (val + s.FLAG_C), \hFF)
         IN  Flags([s EXCEPT !.A = a], Bool(a = 0), 1, None, None)

_and(s, val) ==
    LET a == BitAnd(s.A, val) IN Flags([s EXCEPT !.A = a], Bool(a = 0), 0, 1, 0)

_or(s, val) ==
    LET a == BitOr(s.A, val) IN Flags([s EXCEPT !.A = a], Bool(a = 0), 0, 0, 0)

(* variant: the carry is left as it was *)
_xor_keep_carry(s, val) ==
    LET a == BitXor(s.A, val) IN Flags([s EXCEPT !.A = a], Bool(a = 0), 0, 0, s.FLAG_C)

_xor(s, val) ==
    LET a == BitXor(s.A, val) IN Flags([s EXCEPT !.A = a], Bool(a = 0), 0, 0, 0)

_cp(s, n) == Flags(s, Bool(s.A = n), 1, None, Bool(s.A < n))

(* variant: INC r sets the carry when the result wraps to zero *)
_inc8_carry(s, reg) ==
    IF ~CanGet(s, reg) THEN Raise(s, IndexError)
    ELSE LET t == setattr(s, reg, BitAnd(getattr(s, reg) + 1, \hFF))
         IN  [t EXCEPT !.FLAG_Z = Bool(getattr(t, reg) = 0), !.FLAG_N = 0, !.FLAG_H = None,
                       !.FLAG_C = Bool(getattr(t, reg) = 0)]

_inc8(s, reg) ==
    IF ~CanGet(s, reg) THEN Raise(s, IndexError)
    ELSE LET t == setattr(s, reg, BitAnd(getattr(s, reg) + 1, \hFF))
         IN  [t EXCEPT !.FLAG_Z = Bool(getattr(t, reg) = 0), !.FLAG_N = 0, !.FLAG_H = None]

_dec8(s, reg) ==
    IF ~CanGet(s, reg) THEN Raise(s, IndexError)
    ELSE LET t == setattr(s, reg, BitAnd(getattr(s, reg) - 1, \hFF))
         IN  [t EXCEPT !.FLAG_Z = Bool(getattr(t, reg) = 0), !.FLAG_N = 1, !.FLAG_H = None]

---------------------------------------------------------------------------
(* 3.3.4 16-bit arithmetic *)

_add_hl(s, val) ==
    LET t1 == set_HL(s, HL(s) + val)
        t2 == set_HL(t1, BitAnd(HL(t1), \hFFFF))
    IN  [t2 EXCEPT !.FLAG_N = 0, !.FLAG_H = None, !.FLAG_C = None]

opE8(s, val) == Flags([s EXCEPT !.SP = BitAnd(s.SP + val, \hFFFF)], 0, 0, None, None)

_inc16(s, reg) == setattr(s, reg, BitAnd(getattr(s, reg) + 1, \hFFFF))
_dec16(s, reg) == setattr(s, reg, BitAnd(getattr(s, reg) - 1, \hFFFF))

---------------------------------------------------------------------------
(* 3.3.5 Miscellaneous *)

_swap(s, reg) ==
    IF ~CanGet(s, reg) THEN Raise(s, IndexError)
    ELSE LET v == getattr(s, reg)
             t == setattr(s, reg, BitOr(Shr(BitAnd(v, \hF0), 4), Shl(BitAnd(v, \h0F), 4)))
         IN  Flags(t, Bool(getattr(t, reg) = 0), 0, 0, 0)

op27(s) ==
    [s EXCEPT !.A = BitOr(Shl(BitAnd(s.A \div 10, \hF), 4), BitAnd(s.A % 10, \hF))]

(* variant: CPL flips the low seven bits *)
op2F_seven_bits(s) == [s EXCEPT !.A = BitAnd(BitXor(s.A, \hFF), \h7F)]

op2F(s) == [s EXCEPT !.A = BitXor(s.A, \hFF)]

op3F(s) == [s EXCEPT !.FLAG_N = 0, !.FLAG_H = 0, !.FLAG_C = Not(s.FLAG_C)]

op37(s) == [s EXCEPT !.FLAG_N = 0, !.FLAG_H = 0, !.FLAG_C = 1]

op00(s) == s

op76(s) == [s EXCEPT !.halt = TRUE]

op10(s, sub) ==
    IF sub = 10 THEN [s EXCEPT !.stop = TRUE]
    ELSE Raise(s, OpNotImplemented("Missing sub-command 10:%02X", sub))

opF3(s) == [s EXCEPT !.interrupts = FALSE]
opFB(s) == [s EXCEPT !.interrupts = TRUE]

(* variant: a reserved opcode is skipped *)
_err_skip(s, op) == s

_err(s, op) == Raise(s, OpNotImplemented("Opcode D3 not implemented", 0))

---------------------------------------------------------------------------
(* 3.3.6 Rotates and shifts *)

op07(s) ==
    LET a == BitAnd(Shl(s.A, 1), \hFF)
    IN  Flags([s EXCEPT !.A = a], Bool(a = 0), 0, 0, Bool(BitAnd(s.A, \h80) # 0))

op17(s) ==
    LET old_c == s.FLAG_C
        t == [s EXCEPT !.FLAG_C = Bool(BitAnd(s.A, \h80) # 0)]
        a == BitOr(BitAnd(Shl(s.A, 1), \hFF), old_c)
    IN  IF old_c = None THEN Raise(t, TypeError)
        ELSE [t EXCEPT !.A = a, !.FLAG_Z = Bool(a = 0), !.FLAG_N = 0, !.FLAG_H = 0]

op0F(s) ==
    LET a == Shr(s.A, 1)
    IN  Flags([s EXCEPT !.A = a], Bool(a = 0), 0, 0, Bool(BitAnd(s.A, 1) # 0))

op1F(s) ==
    LET old_c == s.FLAG_C
        t == [s EXCEPT !.FLAG_C = Bool(BitAnd(s.A, 1) # 0), !.A = Shr(s.A, 1)]
        a == BitOr(t.A, Shl(old_c, 7))
    IN  IF old_c = None THEN Raise(t, TypeError)
        ELSE [t EXCEPT !.A = a, !.FLAG_N = 0, !.FLAG_H = 0, !.FLAG_Z = Bool(a = 0)]

(* the shape the CB-prefixed rotates and shifts share: read reg, set C,   *)
(* store `stored`, then N = H = False and Z from the local `val`          *)
ShiftOp(s, reg, c, stored, val) ==
    LET t == setattr([s EXCEPT !.FLAG_C = c], reg, stored)
    IN  IF Raised(t) THEN t
        ELSE [t EXCEPT !.FLAG_N = 0, !.FLAG_H = 0, !.FLAG_Z = Bool(val = 0)]

_rlc(s, reg) ==
    IF ~CanGet(s, reg) THEN Raise(s, IndexError)
    ELSE LET val == getattr(s, reg)
         IN  ShiftOp(s, reg, Bool(BitAnd(val, \h80) # 0), BitAnd(Shl(val, 1), \hFF), Shl(val, 1))

_rl(s, reg) ==
    IF ~CanGet(s, reg) THEN Raise(s, IndexError)
    ELSE LET val == getattr(s, reg)
         IN  ShiftOp(s, reg, Bool(BitAnd(val, \h80) # 0), BitAnd(Shl(val, 1), \hFF), Shl(val, 1))

_rrc(s, reg) ==
    IF ~CanGet(s, reg) THEN Raise(s, IndexError)
    ELSE LET val == getattr(s, reg)
         IN  ShiftOp(s, reg, Bool(BitAnd(val, 1) # 0), Shr(val, 1), Shr(val, 1))

_rr(s, reg) ==
    IF ~CanGet(s, reg) THEN Raise(s, IndexError)
    ELSE LET val == getattr(s, reg)
         IN  ShiftOp(s, reg, Bool(BitAnd(val, 1) # 0), Shr(val, 1), Shr(val, 1))

_sla(s, reg) ==
    IF ~CanGet(s, reg) THEN Raise(s, IndexError)
    ELSE LET val == getattr(s, reg)
         IN  ShiftOp(s, reg, Bool(BitAnd(val, \h80) # 0), Shl(val, 1), Shl(val, 1))

_sra(s, reg) ==
    IF ~CanGet(s, reg) THEN Raise(s, IndexError)
    ELSE LET val == getattr(s, reg)
             v1 == Shr(val, 1)
             v2 == IF BitAnd(v1, \h40) # 0 THEN BitOr(v1, \h80) ELSE v1
         IN  ShiftOp(s, reg, Bool(BitAnd(val, 1) # 0), v2, v2)

_srl(s, reg) ==
    IF ~CanGet(s, reg) THEN Raise(s, IndexError)
    ELSE LET val == getattr(s, reg)
             v1 == BitAnd(Shr(val, 1), \h7F)
         IN  ShiftOp(s, reg, Bool(BitAnd(val, 1) # 0), v1, v1)

---------------------------------------------------------------------------
(* 3.3.7 Bit opcodes *)

_bit(s, reg, bit) ==
    IF ~CanGet(s, reg) THEN Raise(s, IndexError)
    ELSE [s EXCEPT !.FLAG_Z = Bool(BitAnd(getattr(s, reg), Shl(1, bit)) # 0),
                   !.FLAG_N = 0, !.FLAG_H = 1]

_set(s, reg, bit) ==
    IF ~CanGet(s, reg) THEN Raise(s, IndexError)
    ELSE setattr(s, reg, BitOr(getattr(s, reg), Shl(1, bit)))

_res(s, reg, bit) ==
    IF ~CanGet(s, reg) THEN Raise(s, IndexError)
    ELSE setattr(s, reg, BitAnd(getattr(s, reg), BitXor(Shl(1, bit), \hFF)))

---------------------------------------------------------------------------
(* 3.3.8 - 3.3.11 Jumps, calls, restarts, returns *)

opC3(s, nn) == [s EXCEPT !.PC = nn]

(* JP cc,nn: the four conditions, by the flag tested and the value wanted *)
JpIf(s, cond, nn) == IF cond THEN [s EXCEPT !.PC = nn] ELSE s

opE9(s) ==
    IF ValidIndex(HL(s), RamSize) THEN [s EXCEPT !.PC = RamAt(s, HL(s))]
    ELSE Raise(s, IndexError)

op18(s, n) == [s EXCEPT !.PC = @ + n]

JrIf(s, cond, n) == IF cond THEN [s EXCEPT !.PC = @ + n] ELSE s

(* variant: the address pushed is that of the CALL itself *)
opCD_push_own(s, nn) ==
    LET t == _push16([s EXCEPT !.PC = @ - 3], "PC") IN IF Raised(t) THEN t ELSE [t EXCEPT !.PC = nn]

opCD(s, nn) ==
    LET t == _push16(s, "PC") IN IF Raised(t) THEN t ELSE [t EXCEPT !.PC = nn]

CallIf(s, cond, nn) == IF cond THEN opCD(s, nn) ELSE s

_rst(s, val) ==
    LET t == _push16(s, "PC") IN IF Raised(t) THEN t ELSE [t EXCEPT !.PC = val]

opC9(s) == _pop16(s, "PC")

RetIf(s, cond) == IF cond THEN _pop16(s, "PC") ELSE s

opD9(s) ==
    LET t == _pop16(s, "PC") IN IF Raised(t) THEN t ELSE [t EXCEPT !.interrupts = TRUE]

(* the condition of the conditional jump, call or return at opcode op:    *)
(* NZ, Z, NC, C by bits 4..3 of the opcode *)
Cond(s, op) ==
    CASE (op \div 8) % 4 = 0 -> ~Truthy(s.FLAG_Z)
      [] (op \div 8) % 4 = 1 -> Truthy(s.FLAG_Z)
      [] (op \div 8) % 4 = 2 -> ~Truthy(s.FLAG_C)
      [] (op \div 8) % 4 = 3 -> Truthy(s.FLAG_C)

---------------------------------------------------------------------------
(* The opcode tables: self.ops and self.cb_ops, by what the decorators    *)
(* and lambdas of each opXX / opCBXX say                                  *)

R8 == <<"B", "C", "D", "E", "H", "L", "MEM_AT_HL", "A">>
RR == <<"BC", "DE", "HL", "SP">>
QQ == <<"BC", "DE", "HL", "AF">>

(* variant: LD (nn),SP is declared with an imm8 operand *)
OpArgs_08_imm8(op) ==
    CASE op \in { \h06, \h08, \h0E, \h10, \h16, \h1E, \h26, \h2E, \h36, \h3E, \hC6, \hCE,
                  \hD6, \hE0, \hE6, \hE8, \hEE, \hF0, \hF6, \hF8, \hFE } -> "B"
      [] op \in { \h18, \h20, \h28, \h30, \h38 } -> "b"
      [] op \in { \h01, \h11, \h21, \h31, \hC2, \hC3, \hC4, \hCA, \hCC, \hCD, \hD2,
                  \hD4, \hDA, \hDC, \hEA, \hFA } -> "H"
      [] OTHER -> ""

(* fn.args of ops[op]: "B" imm8, "b" signed imm8, "H" imm16, "" none *)
OpArgs(op) ==
    CASE op \in { \h06, \h0E, \h10, \h16, \h1E, \h26, \h2E, \h36, \h3E, \hC6, \hCE, \hD6,
                  \hE0, \hE6, \hE8, \hEE, \hF0, \hF6, \hF8, \hFE } -> "B"
      [] op \in { \h18, \h20, \h28, \h30, \h38 } -> "b"
      [] op \in { \h01, \h08, \h11, \h21, \h31, \hC2, \hC3, \hC4, \hCA, \hCC, \hCD, \hD2,
                  \hD4, \hDA, \hDC, \hEA, \hFA } -> "H"
      [] OTHER -> ""

(* fn.cycles of ops[op] *)
OpCycles ==
    <<  4, 12,  8,  8,  4,  4,  8,  4, 20,  8,  8,  8,  4,  4,  8,  4,
        4, 12,  8,  8,  4,  4,  8,  4,  8,  8,  8,  8,  4,  4,  8,  4,
        8, 12,  8,  8,  4,  4,  8,  4,  8,  8,  8,  8,  4,  4,  8,  4,
        8, 12,  8,  8, 12, 12, 12,  4,  8,  8,  8,  8,  4,  4,  8,  4,
        4,  4,  4,  4,  4,  4,  8,  4,  4,  4,  4,  4,  4,  4,  8,  4,
        4,  4,  4,  4,  4,  4,  8,  4,  4,  4,  4,  4,  4,  4,  8,  4,
        4,  4,  4,  4,  4,  4,  8,  4,  4,  4,  4,  4,  4,  4,  8,  4,
        8,  8,  8,  8,  8,  8,  4,  8,  4,  4,  4,  4,  4,  4,  8,  4,
        4,  4,  4,  4,  4,  4,  8,  4,  4,  4,  4,  4,  4,  4,  8,  4,
        4,  4,  4,  4,  4,  4,  8,  4,  4,  4,  4,  4,  4,  4,  8,  4,
        4,  4,  4,  4,  4,  4,  8,  4,  4,  4,  4,  4,  4,  4,  8,  4,
        4,  4,  4,  4,  4,  4,  8,  4,  4,  4,  4,  4,  4,  4,  8,  4,
        8, 12, 12, 12, 12, 16,  8, 32,  8,  8, 12,  4, 12, 12,  8, 32,
        8, 12, 12,  4, 12, 16,  8, 32,  8,  8, 12,  4, 12,  4,  4, 32,
        8, 12,  8,  4,  4, 16,  8, 32, 16,  4, 16,  4,  4,  4,  8, 32,
        8, 12,  8,  4,  4, 16,  8, 32, 12,  8, 16,  4,  4,  4,  8, 32 >>

(* fn.cycles of cb_ops[op]: the generated table gives every entry 8 *)
CbCycles(op) == 8

(* the opcodes whose handler is self._err *)
ErrOps == { \hD3, \hDB, \hDD, \hDE, \hE3, \hE4, \hEB, \hEC, \hED, \hF4, \hFC, \hFD }

(* opCB: the primary table's own entry for 0xCB *)
opCB(s) == Raise(s, OpNotImplemented("CB is special cased, you shouldn't get here", 0))

(* op80..opBF: the ALU operation of the block, applied to val *)
Alu(s, k, val) ==
    CASE k = 0 -> _add(s, val) [] k = 1 -> _adc(s, val)
      [] k = 2 -> _sub(s, val) [] k = 3 -> _sbc(s, val)
      [] k = 4 -> _and(s, val) [] k = 5 -> _xor(s, val)
      [] k = 6 -> _or(s, val)  [] k = 7 -> _cp(s, val)

(* the operand of op80..opBF: a register, or self.ram[self.HL] *)
AluReg(s, k, reg) ==
    IF CanGet(s, reg) THEN Alu(s, k, getattr(s, reg)) ELSE Raise(s, IndexError)

(* opE6, opF6, opEE: the operation applied to self.ram[n] *)
AluRam(s, k, n) ==
    IF ValidIndex(n, RamSize) THEN Alu(s, k, RamAt(s, n)) ELSE Raise(s, IndexError)

(* ops[op](param): the handler of primary opcode op *)
Exec(s, op, n) ==
    CASE op = \h00 -> op00(s)
      [] op \in { \h06, \h0E, \h16, \h1E, \h26, \h2E } -> _ld_val_to_reg(s, n, R8[(op \div 8) + 1])
      [] op = \h36 -> op36(s, n)
      [] op = \h3E -> _ld_val_to_a(s, n)
      [] op = \h76 -> op76(s)
      [] op = \h77 -> _ld_reg_from_reg(s, "MEM_AT_HL", "L")
      [] op \in (\h40..\h7F) \ { \h76, \h77 } ->
            _ld_reg_from_reg(s, R8[((op - \h40) \div 8) + 1], R8[(op % 8) + 1])
      [] op = \h0A -> LdAFromRam(s, BC(s))
      [] op = \h1A -> LdAFromRam(s, DE(s))
      [] op = \hFA -> LdAFromRam(s, n)
      [] op = \h02 -> _ld_a_to_mem(s, BC(s))
      [] op = \h12 -> _ld_a_to_mem(s, BC(s))
      [] op = \hEA -> _ld_a_to_mem(s, n)
      [] op = \hF2 -> opF2(s)
      [] op = \hE2 -> opE2(s)
      [] op = \h3A -> op3A(s)
      [] op = \h32 -> op32(s)
      [] op = \h2A -> op2A(s)
      [] op = \h22 -> op22(s)
      [] op = \hE0 -> opE0(s, n)
      [] op = \hF0 -> opF0(s, n)
      [] op \in { \h01, \h11, \h21, \h31 } -> _ld_val_to_reg(s, n, RR[(op \div 16) + 1])
      [] op = \hF9 -> _ld_reg_from_reg(s, "SP", "HL")
      [] op = \hF8 -> opF8(s, n)
      [] op = \h08 -> op08(s, n)
      [] op \in { \hC5, \hD5, \hE5, \hF5 } -> _push16(s, QQ[((op - \hC0) \div 16) + 1])
      [] op \in { \hC1, \hD1, \hE1, \hF1 } -> _pop16(s, QQ[((op - \hC0) \div 16) + 1])
      [] op \in \h80..\hBF -> AluReg(s, (op - \h80) \div 8, R8[(op % 8) + 1])
      [] op = \hC6 -> _add(s, n)
      [] op = \hCE -> _adc(s, n)
      [] op = \hD6 -> _sub(s, n)
      [] op = \hE6 -> AluRam(s, 4, n)
      [] op = \hF6 -> AluRam(s, 6, n)
      [] op = \hEE -> AluRam(s, 5, n)
      [] op = \hFE -> _cp(s, n)
      [] op \in { \h04, \h0C, \h14, \h1C, \h24, \h2C, \h34, \h3C } -> _inc8(s, R8[(op \div 8) + 1])
      [] op \in { \h05, \h0D, \h15, \h1D, \h25, \h2D, \h35, \h3D } -> _dec8(s, R8[(op \div 8) + 1])
      [] op \in { \h09, \h19, \h29, \h39 } -> _add_hl(s, getattr(s, RR[(op \div 16) + 1]))
      [] op = \hE8 -> opE8(s, n)
      [] op \in { \h03, \h13, \h23, \h33 } -> _inc16(s, RR[(op \div 16) + 1])
      [] op \in { \h0B, \h1B, \h2B, \h3B } -> _dec16(s, RR[(op \div 16) + 1])
      [] op = \h27 -> op27(s)
      [] op = \h2F -> op2F(s)
      [] op = \h3F -> op3F(s)
      [] op = \h37 -> op37(s)
      [] op = \h10 -> op10(s, n)
      [] op = \hF3 -> opF3(s)
      [] op = \hFB -> opFB(s)
      [] op = \h07 -> op07(s)
      [] op = \h17 -> op17(s)
      [] op = \h0F -> op0F(s)
      [] op = \h1F -> op1F(s)
      [] op = \hC3 -> opC3(s, n)
      [] op \in { \hC2, \hCA, \hD2, \hDA } -> JpIf(s, Cond(s, op), n)
      [] op = \hE9 -> opE9(s)
      [] op = \h18 -> op18(s, n)
      [] op \in { \h20, \h28, \h30, \h38 } -> JrIf(s, Cond(s, op), n)
      [] op = \hCD -> opCD(s, n)
      [] op \in { \hC4, \hCC, \hD4, \hDC } -> CallIf(s, Cond(s, op), n)
      [] op \in { \hC7, \hCF, \hD7, \hDF, \hE7, \hEF, \hF7, \hFF } -> _rst(s, op - \hC7)
      [] op = \hC9 -> opC9(s)
      [] op \in { \hC0, \hC8, \hD0, \hD8 } -> RetIf(s, Cond(s, op))
      [] op = \hD9 -> opD9(s)
      [] op = \hCB -> opCB(s)
      [] op \in ErrOps -> _err(s, op)

(* cb_ops[op](): the handler of CB-prefixed opcode op *)
ExecCB(s, op) ==
    LET reg == R8[(op % 8) + 1]
        k == op \div 8
    IN  CASE k = 0 -> _rlc(s, reg) [] k = 1 -> _rrc(s, reg)
          [] k = 2 -> _rl(s, reg)  [] k = 3 -> _rr(s, reg)
          [] k = 4 -> _sla(s, reg) [] k = 5 -> _sra(s, reg)
          [] k = 6 -> _swap(s, reg) [] k = 7 -> _srl(s, reg)
          [] k \in 8..15 -> _bit(s, reg, k - 8)
          [] k \in 16..23 -> _res(s, reg, k - 16)
          [] k \in 24..31 -> _set(s, reg, k - 24)

---------------------------------------------------------------------------
(* tick *)

(* src: BOOT while ram[0xFF50] == 0, else self.ram *)
Src(s) == IF RamAt(s, \hFF50) = 0 THEN "BOOT" ELSE "ram"
SrcValid(src, s, i) == ValidIndex(i, IF src = "BOOT" THEN Len(boot) ELSE RamSize)
SrcAt(src, s, i) == IF src = "BOOT" THEN boot[Index(i, Len(boot)) + 1] ELSE RamAt(s, i)

(* return cmd.cycles, reached only when cmd did not raise *)
Return(t, cycles) == IF Raised(t) THEN t ELSE [t EXCEPT !.ret = cycles]

(* the branch on cmd.args: fetch the operand, set debug_str, advance PC, call cmd *)
Dispatch(s, src, cb, op, ins) ==
    LET args == IF cb THEN "" ELSE OpArgs(op)
        cycles == IF cb THEN CbCycles(op) ELSE OpCycles[op + 1]
        p1 == SrcAt(src, s, s.PC + 1)
        p2 == SrcAt(src, s, s.PC + 2)
    IN  CASE args = "B" ->
               IF ~SrcValid(src, s, s.PC + 1) THEN Raise(s, IndexError)
               ELSE Return(Exec([s EXCEPT !.debug_str = <<Bool(cb), s.PC, ins, p1>>,
                                          !.PC = @ + 2], op, p1), cycles)
          [] args = "b" ->
               IF ~SrcValid(src, s, s.PC + 1) THEN Raise(s, IndexError)
               ELSE IF p1 > 128
               THEN Return(Exec([s EXCEPT !.debug_str = <<Bool(cb), s.PC, ins, p1 - 256>>,
                                          !.PC = @ + 2], op, p1 - 256), cycles)
               ELSE Return(Exec([s EXCEPT !.PC = @ + 2], op, p1), cycles)
          [] args = "H" ->
               IF ~SrcValid(src, s, s.PC + 1) \/ ~SrcValid(src, s, s.PC + 2)
               THEN Raise(s, IndexError)
               ELSE LET param == BitOr(p1, Shl(p2, 8))
                    IN  Return(Exec([s EXCEPT !.debug_str = <<Bool(cb), s.PC, ins, param>>,
                                              !.PC = @ + 3], op, param), cycles)
          [] args = "" ->
               LET t == [s EXCEPT !.debug_str = <<Bool(cb), s.PC, ins, 0>>, !.PC = @ + 1]
               IN  Return(IF cb THEN ExecCB(t, op) ELSE Exec(t, op, 0), cycles)

(* the table lookup: ops[ins], or cb_ops[src[PC + 1]] after a 0xCB *)
Decode(s, src, ins) ==
    IF ins = \hCB
    THEN IF ~SrcValid(src, s, s.PC + 1) THEN Raise(s, IndexError)
         ELSE LET ins2 == SrcAt(src, s, s.PC + 1)
              IN  IF ~ValidIndex(ins2, 256) THEN Raise(s, IndexError)
                  ELSE Dispatch([s EXCEPT !.PC = @ + 1], src, TRUE, Index(ins2, 256), ins2)
    ELSE IF ~ValidIndex(ins, 256) THEN Raise(s, IndexError)
         ELSE Dispatch(s, src, FALSE, Index(ins, 256), ins)

(* tick(): exc is the exception it raised (NoExc when it returned), ret   *)
(* the value it returned (0 when it raised)                               *)
(* variant: the PC test lets 0xFF00 through *)
tick_above_FF00(s0) ==
    LET s == [s0 EXCEPT !.exc = NoExc, !.ret = 0]
        src == Src(s)
    IN  IF s.PC > \hFF00
        THEN Raise(s, Exception("PC reached IO ports (0x%04X) after %d NOPs", s.PC, s._nopslide))
        ELSE IF ~SrcValid(src, s, s.PC) THEN Raise(s, IndexError)
        ELSE LET ins == SrcAt(src, s, s.PC)
             IN  IF ins = 0
                 THEN [s EXCEPT !._nopslide = @ + 1, !.PC = @ + 1, !.ret = 4]
                 ELSE Decode([s EXCEPT !._nopslide = 0], src, ins)

tick(s0) ==
    LET s == [s0 EXCEPT !.exc = NoExc, !.ret = 0]
        src == Src(s)
    IN  IF s.PC >= \hFF00
        THEN Raise(s, Exception("PC reached IO ports (0x%04X) after %d NOPs", s.PC, s._nopslide))
        ELSE IF ~SrcValid(src, s, s.PC) THEN Raise(s, IndexError)
        ELSE LET ins == SrcAt(src, s, s.PC)
             IN  IF ins = 0
                 THEN [s EXCEPT !._nopslide = @ + 1, !.PC = @ + 1, !.ret = 4]
                 ELSE Decode([s EXCEPT !._nopslide = 0], src, ins)

(* CPU.__init__ on a cartridge image *)
CPU(rom) ==
    [ A |-> \h01, B |-> \h00, C |-> \h13, D |-> \h00, E |-> \hD8, H |-> \h01, L |-> \h4D,
      SP |-> \hFFFE, PC |-> \h0000,
      FLAG_Z |-> 1, FLAG_N |-> 0, FLAG_H |-> 1, FLAG_C |-> 1,
      interrupts |-> TRUE, halt |-> FALSE, stop |-> FALSE,
      _nopslide |-> 0, debug_str |-> <<>>,
      rom |-> rom, ram |-> <<>>,
      exc |-> NoExc, ret |-> 0, out |-> <<>> ]

---------------------------------------------------------------------------
(* The display pass, as far as the frame loop sees it: what update()      *)
(* returns or raises.  quit: the host has a QUIT event pending.           *)

BACKGROUND_MAP_0 == 38912
BACKGROUND_MAP_1 == 39936
WINDOW_MAP_0 == 38912
WINDOW_MAP_1 == 39936
TileCount == 512

(* self.tiles[tile_id] for the 20 x 18 cells of a map: the ids index the  *)
(* 0x200 decoded tiles                                                    *)
TilesValid(s, map) ==
    \A y \in 0..17 : \A x \in 0..19 : ValidIndex(RamAt(s, map + y * 32 + x), TileCount)

update(s, quit) ==
    LET LCDC == RamAt(s, \hFF40)
        background_map == IF BitAnd(LCDC, \h08) # 0 THEN BACKGROUND_MAP_1 ELSE BACKGROUND_MAP_0
        window_map == IF BitAnd(LCDC, \h40) # 0 THEN WINDOW_MAP_1 ELSE WINDOW_MAP_0
    IN  IF quit THEN "False"
        ELSE IF BitAnd(LCDC, \h80) = 0 THEN "True"
        ELSE IF BitAnd(LCDC, \h01) # 0 /\ ~TilesValid(s, background_map) THEN "IndexError"
        ELSE IF BitAnd(LCDC, \h20) # 0 /\ ~TilesValid(s, window_map) THEN "IndexError"
        ELSE IF BitAnd(LCDC, \h02) # 0 THEN "Exception"
        ELSE "True"

---------------------------------------------------------------------------
(* dump(cpu, err) and CPU.__str__ *)

(* the range test of __str__, which raises "Register value out of range" *)
RegOutOfRange(s) == \E r \in {s.A, s.B, s.C, s.D, s.E, s.H, s.L} : r > \hFF \/ r < 0

(* what __str__ formats *)
RegDump(s) ==
    <<OrZero(s.FLAG_Z), OrZero(s.FLAG_N), OrZero(s.FLAG_H), OrZero(s.FLAG_C),
      s.PC, s.SP, s.A, s.B, s.C, s.D, s.E, s.H, s.L>>

(* crash.txt as dump leaves it: the message, debug_str, then (unless      *)
(* str(cpu) raised) the registers and the memory rows                     *)
dump(s, err) ==
    IF RegOutOfRange(s) THEN <<err, s.debug_str>>
    ELSE <<err, s.debug_str, RegDump(s), s.ram>>

SafeExit == <<"Safe exit", 0, 0>>

---------------------------------------------------------------------------
(* Cartridges: 0x8000-byte images, zero outside the bytes given *)

At(a, bytes) == [i \in a..(a + Len(bytes) - 1) |-> bytes[i - a + 1]]

(* bounds of the cartridges tried *)
MaxVals == 3
MaxStacks == 3

Words == << \h1234, \hFFF0, \h0000, \h80FF, \h00FF >>
Stacks == << \hFFFE, \hD000, \h0000, \hFFFF, \h0002 >>
Lo(w) == w % 256
Hi(w) == w \div 256

(* LD SP,s ; LD rr,v ; PUSH rr ; POP rr ; HALT *)
PushPopCart(k, v, sp) ==
    At(\h0100, << \h31, Lo(sp), Hi(sp), \h01 + 16 * k, Lo(v), Hi(v),
                  \hC5 + 16 * k, \hC1 + 16 * k, \h76 >>)

(* LD SP,s ; LD BC,v ; PUSH BC ; POP AF ; PUSH AF ; POP AF ; HALT *)
PushPopAFCart(v, sp) ==
    At(\h0100, << \h31, Lo(sp), Hi(sp), \h01, Lo(v), Hi(v), \hC5, \hF1, \hF5, \hF1, \h76 >>)

(* LD SP,s ; JP p ; at p: CALL nn ; HALT ; at nn: RET *)
CallRetCart(p, nn, sp) ==
    At(\h0100, << \h31, Lo(sp), Hi(sp), \hC3, Lo(p), Hi(p) >>)
    @@ At(p, << \hCD, Lo(nn), Hi(nn), \h76 >>)
    @@ At(nn, << \hC9 >>)

(* bounds of the register values tried *)
MaxAFs == 3
MaxBs == 3

AFs == << \h10F0, \hFF00, \h0110, \h8050, \h0FA0 >>
Bs == << \h01, \hFF, \h10, \h00, \h8F >>

(* LD BC,v ; PUSH BC ; POP AF ; LD B,b ; prog ; HALT: prog run with       *)
(* A = v >> 8, the flags of v, and B = b                                  *)
ProgCart(v, b, prog) ==
    At(\h0100, << \h01, Lo(v), Hi(v), \hC5, \hF1, \h06, b >> \o prog \o << \h76 >>)

(* the instruction sequences tried *)
Progs ==
    { << \h80 >>, << \h87 >>, << \h90 >>, << \hB8 >>,        \* ADD A,B ; ADD A,A ; SUB B ; CP B
      << \h88 >>, << \h98 >>,                                \* ADC A,B ; SBC A,B
      << \h80, \h88 >>, << \h80, \h98 >>,                    \* ADD A,B then ADC / SBC
      << \h88, \h8F >>, << \h98, \h98 >>,                    \* ADC then ADC ; SBC then SBC
      << \h09, \h88 >>, << \hE8, \h01, \h98 >>,              \* ADD HL,BC ; ADC  /  ADD SP,1 ; SBC
      << \hAF >>, << \h80, \hAF >>, << \hCB, \h27, \hAF >> }  \* XOR A, after ADD A,B, after SLA A
    \cup { << \hCB, \h40 + 8 * bit + r >> : bit \in 0..7, r \in {0, 7} }  \* BIT bit,B ; BIT bit,A
    \cup { << \hCB, 8 * row >> : row \in 0..7 }        \* RLC B, RRC B, RL B, RR B, SLA B, SRA B, SWAP B, SRL B
    \cup { << \h04 >>, << \h05 >>, << \h3C >>, << \h3D >>,   \* INC B ; DEC B ; INC A ; DEC A
           << \h80, \h04 >>, << \h80, \h05 >>,              \* ADD A,B ; INC B / DEC B
           << \h2F, \h2F >>,                                \* CPL ; CPL
           << \h3F, \h3F >>, << \h80, \h3F, \h3F >>,        \* CCF ; CCF, and after ADD A,B
           << \h80, \h27 >> }                               \* ADD A,B ; DAA

(* prog ; HALT, run with the registers the boot image leaves *)
FixedCart(prog) == At(\h0100, prog \o << \h76 >>)

(* the instruction sequences tried that way *)
FixedProgs ==
    { << \hCB, 8 * row + r >> : row \in 0..7, r \in {6, 7} }   \* the CB shifts on [HL] and on A
    \cup { << \h3E, \h80, \hCB, \h07 >>,                      \* LD A,80 ; RLC A
           << \h3E, \h80, \hCB, \h17 >>,                      \* LD A,80 ; RL A
           << \h21, \h10, \hC0, \h36, \h80, \hCB, \h26 >> } \* LD HL,C010 ; LD (HL),80 ; SLA (HL)
    \cup { << op >> : op \in { \h0C, \h0D, \h14, \h15, \h1C, \h1D, \h24, \h25,
                              \h2C, \h2D, \h34, \h35 } }       \* INC r ; DEC r
    \cup { << \h03 + 8 * k >> : k \in 0..7 }                      \* INC rr ; DEC rr
    \cup { << \h01 + 16 * k, \hFF, \hFF, \h03 + 16 * k >> : k \in 0..3 }   \* LD rr,FFFF ; INC rr
    \cup { << \h01 + 16 * k, \h00, \h00, \h0B + 16 * k >> : k \in 0..3 }   \* LD rr,0000 ; DEC rr
    \cup { << \h80, \h03 >>, << \h80, \h3B >> }                   \* ADD A,B ; INC BC / DEC SP
    \cup { << \h10, \h01 >> }                                     \* STOP 01
    \cup { << op, e >> : op \in { \hE8, \hF8 }, e \in { \h01, \h7F, \h80, \hFF } }  \* ADD SP,e ; LD HL,SP+e
    \cup { << \h31, \h00, \h10, op, \hFF >> : op \in { \hE8, \hF8 } }   \* LD SP,1000 ; the same with FF
    \cup { << \h3E, \hAB, \h21, \h00, \hC0, \h77 >>,          \* LD A,AB ; LD HL,C000 ; LD (HL),A
           << \h3E, \hAB, \h21, \hAB, \hC0, \h77 >> }          \* LD A,AB ; LD HL,C0AB ; LD (HL),A
    \cup { << \hC6 + 8 * k, \h0F >> : k \in 0..7 }              \* ADD A,0F ... CP 0F
    \cup { << \h3E, \hFF, \hC6 + 8 * k, \h0F >> : k \in 0..7 }  \* LD A,FF ; the same
    \cup { << \h3E, xy[1], \hC6, xy[2], \h27 >> :              \* LD A,x ; ADD A,y ; DAA
              xy \in { << \h15, \h27 >>, << \h09, \h01 >>, << \h05, \h04 >>,
                       << \h99, \h01 >>, << \h00, \h00 >> } }

(* JR e or JR cc,e at 0x0100, with HALT after it and at 0x0082 and 0x0182 *)
JrCart(op, e) ==
    At(\h0082, << \h76 >>) @@ At(\h0100, << op, e, \h76 >>) @@ At(\h0182, << \h76 >>)

(* a boot.gb that loads through BC, DE, nn and HL from its own data, *)
(* then hands over as the original does                               *)
BootGb ==
    LET code == << \h31, \hFE, \hFF,         \* 00 LD SP,FFFE
                   \h01, \hA8, \h00,         \* 03 LD BC,00A8
                   \h11, \hD8, \h00,         \* 06 LD DE,00D8
                   \h21, \hA9, \h00,         \* 09 LD HL,00A9
                   \h0A,                     \* 0C LD A,(BC)
                   \h1A,                     \* 0D LD A,(DE)
                   \hFA, \hAA, \h00,         \* 0E LD A,(00AA)
                   \h7E,                     \* 11 LD A,(HL)
                   \h46,                     \* 12 LD B,(HL)
                   \hC3, \hFC, \h00 >>       \* 13 JP 00FC
        rest == At(\h00A8, << \hCE, \hED, \h66 >>) @@ At(\h00D8, << \h3C >>)
                @@ At(\h00E9, << \h20, \hFE >>) @@ At(\h00FA, << \h20, \hFE >>)   \* JR NZ,-2
                @@ At(\h00FC, << \h3E, \h01, \hE0, \h50 >>)   \* LD A,01 ; LDH (50),A
    IN  [i \in 1..256 |-> IF i <= Len(code) THEN code[i]
                          ELSE IF (i - 1) \in DOMAIN rest THEN rest[i - 1] ELSE 0]

(* the cartridges run under it: other bytes where it keeps its data, and *)
(* the same bytes                                                        *)
BootGbCarts ==
    { At(\h00A8, << \h11, \h22, \h33 >>) @@ At(\h00D8, << \h44 >>) @@ At(\h0100, << \h76 >>),
      At(\h00A8, << \hCE, \hED, \h66 >>) @@ At(\h00D8, << \h3C >>) @@ At(\h0100, << \h76 >>) }

(* the encoding: the opcodes followed by an imm8 and by an imm16 operand, *)
(* and those that transfer control                                        *)
Imm8Ops ==
    { \h06, \h0E, \h16, \h1E, \h26, \h2E, \h36, \h3E, \hC6, \hCE, \hD6, \hDE, \hE6, \hEE,
      \hF6, \hFE, \hE0, \hF0, \hE8, \hF8, \h18, \h20, \h28, \h30, \h38, \h10 }
Imm16Ops ==
    { \h01, \h11, \h21, \h31, \h08, \hC2, \hC3, \hCA, \hD2, \hDA, \hC4, \hCC, \hCD, \hD4,
      \hDC, \hEA, \hFA }
CondOps ==
    { \h20, \h28, \h30, \h38, \hC2, \hCA, \hD2, \hDA, \hC4, \hCC, \hD4, \hDC,
      \hC0, \hC8, \hD0, \hD8 }
RstOps == { \hC7 + 8 * k : k \in 0..7 }
TransferOps == CondOps \cup RstOps \cup { \h18, \hC3, \hE9, \hCD, \hC9, \hD9 }

(* every opcode that neither transfers control nor faults nor sets a    *)
(* latch, in order, each after XOR A and padded with NOPs to four bytes; *)
(* then HALT                                                             *)
OpSlot(op) ==
    IF op \in TransferOps \cup ErrOps \cup { \h10, \h76, \hCB } THEN << \hAF, 0, 0, 0 >>
    ELSE IF op \in Imm16Ops THEN << \hAF, op, \hC0, \hC0 >>
    ELSE IF op \in Imm8Ops THEN << \hAF, op, \hC0, 0 >>
    ELSE << \hAF, op, 0, 0 >>

AllOpsCart ==
    [a \in \h0100..\h04FF |-> OpSlot((a - \h0100) \div 4)[((a - \h0100) % 4) + 1]]
    @@ At(\h0500, << \h76 >>)

(* LD HL,C000 ; every CB-prefixed opcode in order ; HALT *)
AllCbCart ==
    At(\h0100, << \h21, \h00, \hC0 >>)
    @@ [a \in \h0103..\h0302 |-> IF (a - \h0103) % 2 = 0 THEN \hCB ELSE (a - \h0103) \div 2]
    @@ At(\h0303, << \h76 >>)

(* a transfer opcode at 0x0100 with operand 0x0105, and HALT wherever it *)
(* can land: after it, at 0x0000 (RET), the restart vectors and 0x014D   *)
(* (JP (HL))                                                             *)
TransferCart(op) ==
    At(\h0100, << op, \h05, \h01, \h76, \h76, \h76, \h76, \h76 >>)
    @@ [a \in { 8 * k : k \in 0..7 } \cup { \h014D } |-> \h76]

(* the same after XOR A, which leaves Z set and C clear *)
TransferCartZ(op) ==
    At(\h0100, << \hAF, op, \h05, \h01, \h76, \h76, \h76, \h76, \h76 >>)
    @@ [a \in { 8 * k : k \in 0..7 } |-> \h76]

(* bound of the nesting depth tried *)
MaxDepth == 3

(* the i-th word pushed *)
NestVal(i) == \h1234 + \h1111 * i

(* LD SP,sp ; k times LD BC,NestVal(i) ; PUSH BC ; k times POP BC ; HALT *)
NestCart(k, sp) ==
    At(\h0100, << \h31, Lo(sp), Hi(sp) >>
               \o [i \in 1..(4 * k) |->
                     LET j == (i - 1) \div 4 + 1
                         r == (i - 1) % 4
                     IN  CASE r = 0 -> \h01
                           [] r = 1 -> Lo(NestVal(j))
                           [] r = 2 -> Hi(NestVal(j))
                           [] r = 3 -> \hC5]
               \o [i \in 1..k |-> \hC1]
               \o << \h76 >>)

NestCarts == { NestCart(k, sp) : k \in 1..MaxDepth, sp \in { \hFFFF, \hD000 } }
             \cup { NestCart(k, 2 * k + 2) : k \in 1..MaxDepth }

Carts ==
    { <<>> }
    \cup { At(\h0100, <<op>>) : op \in ErrOps }
    \cup NestCarts
    \cup { At(\h0100, << \hAF, \hE0, \h50 >>),                 \* XOR A ; LDH (50),A
           At(\h0100, << \h06, \h80, \hCB, \h20, \h76 >>),     \* LD B,80 ; SLA B ; HALT
           At(\h0100, << \h21, \h00, \h02, \h36, \h55, \h76 >>), \* LD HL,0200 ; LD (HL),55 ; HALT
           At(\h0100, << \h31, \h00, \h10, \hC5, \h76 >>),     \* LD SP,1000 ; PUSH BC ; HALT
           At(\h0100, << \hC3, \h00, \hFF >>),                 \* JP FF00
           At(\h0100, << \hC3, \hFF, \hFF >>),                 \* JP FFFF
           At(\h0100, << \h3E, \h93, \hE0, \h40, \h18, \hFE >>), \* LCDC = 93 ; JR -2
           At(\h0100, << \h10, \h00 >>),                       \* STOP 00
           At(\h0100, << \h10, \h0A >>),                       \* STOP 0A
           At(\h0100, << \h76 >>) }                            \* HALT
    \cup { PushPopCart(k, Words[v], Stacks[sp]) :
             k \in 0..2, v \in 1..MaxVals, sp \in 1..MaxStacks }
    \cup { PushPopAFCart(Words[v], Stacks[sp]) : v \in 1..MaxVals, sp \in 1..MaxStacks }
    \cup { CallRetCart(\h0150, \h1234, \hFFFE), CallRetCart(\h0150, \h1234, \hD000),
           CallRetCart(\h4000, \h0008, \hC100) }
    \cup { ProgCart(AFs[v], Bs[b], prog) : v \in 1..MaxAFs, b \in 1..MaxBs, prog \in Progs }
    \cup { FixedCart(prog) : prog \in FixedProgs }
    \cup { JrCart(op, e) : op \in { \h18, \h20, \h28, \h30, \h38 }, e \in { \h7F, \h80 } }
    \cup { AllOpsCart, AllCbCart }
    \cup { TransferCart(op) : op \in TransferOps }
    \cup { TransferCartZ(op) : op \in CondOps }

---------------------------------------------------------------------------
(* run(cart): the frame loop *)

Init ==
    /\ \/ boot = BOOT /\ cpu \in { CPU(rom) : rom \in Carts }
       \/ boot = FromBootGb(BootGb) /\ cpu \in { CPU(rom) : rom \in BootGbCarts }
    /\ lcd = "open"
    /\ running = TRUE
    /\ clock = 0
    /\ pc = "loop"
    /\ crash = <<>>
    /\ stderr = <<>>
    /\ events = <<>>
    /\ before = <<>>
    /\ shown = 0

(* the frame check that ends an iteration: t the CPU, run1 and clk the    *)
(* values of running and clock the try statement left                     *)
FrameCheck(t, run1, clk) ==
    IF clk > 70224 \/ clk > 1000
    THEN \E quit \in BOOLEAN :
            LET r == update(t, quit)
            IN  /\ clock' = 0
                /\ shown' = clk
                /\ running' = IF r = "False" THEN FALSE ELSE run1
                /\ pc' = IF r \in {"False", "True"} THEN "loop" ELSE "raised"
    ELSE /\ clock' = clk
         /\ shown' = shown
         /\ running' = run1
         /\ pc' = "loop"

(* an iteration with the CPU running: clock += cpu.tick(), the two except *)
(* clauses, the frame check                                               *)
Tick ==
    /\ pc = "loop" /\ running /\ ~cpu.halt /\ ~cpu.stop
    /\ cpu' = tick(cpu)
    /\ before' = IF before = <<>> THEN <<cpu>> ELSE <<before[Len(before)], cpu>>
    /\ UNCHANGED <<boot, lcd>>
    /\ IF ~Raised(cpu')
       THEN /\ UNCHANGED <<crash, stderr, events>>
            /\ FrameCheck(cpu', TRUE, clock + cpu'.ret)
       ELSE IF cpu'.exc[1] = "OpNotImplemented"
       THEN /\ stderr' = Append(stderr, Str(cpu'.exc))
            /\ UNCHANGED <<crash, events>>
            /\ FrameCheck(cpu', FALSE, clock)
       ELSE /\ crash' = dump(cpu', Str(cpu'.exc))
            /\ events' = Append(events, "dump")
            /\ stderr' = stderr
            /\ IF RegOutOfRange(cpu')
               THEN running' = FALSE /\ clock' = clock /\ shown' = shown /\ pc' = "raised"
               ELSE FrameCheck(cpu', FALSE, clock)

(* variant: an iteration with HALT or STOP set bills 8 cycles *)
Idle_bills_8 ==
    /\ pc = "loop" /\ running /\ (cpu.halt \/ cpu.stop)
    /\ UNCHANGED <<boot, cpu, lcd, crash, stderr, events, before>>
    /\ FrameCheck(cpu, TRUE, clock + 8)

(* an iteration with HALT or STOP set: clock += 4, the frame check *)
Idle ==
    /\ pc = "loop" /\ running /\ (cpu.halt \/ cpu.stop)
    /\ UNCHANGED <<boot, cpu, lcd, crash, stderr, events, before>>
    /\ FrameCheck(cpu, TRUE, clock + 4)

(* the loop is left: lcd.close() *)
Close ==
    /\ pc = "loop" /\ ~running
    /\ lcd' = "closed"
    /\ events' = Append(events, "close")
    /\ pc' = "dump"
    /\ UNCHANGED <<boot, cpu, running, clock, crash, stderr, before, shown>>

(* dump(cpu, "Safe exit"), the last statement of run() *)
FinalDump ==
    /\ pc = "dump"
    /\ crash' = dump(cpu, SafeExit)
    /\ events' = Append(events, "dump")
    /\ pc' = IF RegOutOfRange(cpu) THEN "raised" ELSE "done"
    /\ UNCHANGED <<boot, cpu, lcd, running, clock, stderr, before, shown>>

Next == Tick \/ Idle \/ Close \/ FinalDump

Spec == Init /\ [][Next]_vars

---------------------------------------------------------------------------
(* Vocabulary of the properties *)

(* a tick() call has been made; Prev is the CPU as the last one found it *)
Ticked == before # <<>>
Prev == before[Len(before)]

(* the last two tick() calls were made on Prev2 and then on Prev *)
TickedTwice == Len(before) = 2
Prev2 == before[1]

(* tick() on s passes the PC test and reads opcode byte op *)
Fetches(s, op) ==
    /\ s.PC < \hFF00
    /\ SrcValid(Src(s), s, s.PC)
    /\ SrcAt(Src(s), s, s.PC) = op

(* the imm16 operand tick() on s reads *)
Operand16(s) == BitOr(SrcAt(Src(s), s, s.PC + 1), Shl(SrcAt(Src(s), s, s.PC + 2), 8))

(* the F byte *)
F(s) == AF(s) % 256

(* t differs from s in nothing but the outcome of the call *)
SameButOutcome(s, t) == [t EXCEPT !.exc = s.exc, !.ret = s.ret] = s

ZeroCart(s) == DOMAIN s.rom = {}

---------------------------------------------------------------------------
(* C1: from power-on with the synthesized boot image and a zero-filled    *)
(* cartridge, the state with PC = 0x0100 has A = 0x01, F = 0xB0,          *)
(* BC = 0x0013, DE = 0x00D8, HL = 0x014D, SP = 0xFFFE and ram[0xFF50]     *)
(* nonzero.                                                               *)
C1_BootHandoff ==
    (ZeroCart(cpu) /\ cpu.PC = \h0100) =>
        /\ cpu.A = \h01 /\ F(cpu) = \hB0
        /\ BC(cpu) = \h0013 /\ DE(cpu) = \h00D8 /\ HL(cpu) = \h014D
        /\ cpu.SP = \hFFFE
        /\ RamAt(cpu, \hFF50) # 0

(* C2: once a tick() has fetched from the RAM image (a nonzero value was  *)
(* written to 0xFF50), every later tick() fetches from it too: the boot   *)
(* overlay never comes back.                                              *)
C2_OverlayStaysDisabled ==
    \A i \in DOMAIN before : Src(before[i]) = "ram" => Src(cpu) = "ram"

(* C3: after any sequence of tick() calls A, B, C, D, E, H, L are in      *)
(* 0..255 and SP, PC are in 0..65535.                                     *)
C3_RegistersInRange ==
    /\ \A r \in {cpu.A, cpu.B, cpu.C, cpu.D, cpu.E, cpu.H, cpu.L} : r \in 0..255
    /\ cpu.SP \in 0..65535
    /\ cpu.PC \in 0..65535

(* C4: writes to the ROM region are ignored: every cell of 0x0000-0x7FFF  *)
(* still holds the cartridge byte loaded at init.                         *)
C4_RomWritesIgnored ==
    \A a \in DOMAIN cpu.ram : a < \h8000 => cpu.ram[a] = RomAt(cpu.rom, a)

(* C5: stack round trip: PUSH R executed with R = v in 0..65535, then     *)
(* POP R, leaves R = v and SP at its value before the PUSH, for R in      *)
(* BC, DE, HL, AF.                                                        *)
C5_PushPopRoundTrip ==
    \A k \in 1..4 :
        ( /\ TickedTwice
          /\ Fetches(Prev2, \hC5 + 16 * (k - 1)) /\ ~Raised(Prev)
          /\ Fetches(Prev, \hC1 + 16 * (k - 1))
          /\ getattr(Prev2, QQ[k]) \in 0..65535 )
        => /\ ~Raised(cpu)
           /\ getattr(cpu, QQ[k]) = getattr(Prev2, QQ[k])
           /\ cpu.SP = Prev2.SP

(* a POP AF has just undone a PUSH AF of 0x1230 made with SP = 0xFFFE *)
C5_Witness ==
    /\ TickedTwice
    /\ Fetches(Prev2, \hF5) /\ Fetches(Prev, \hF1)
    /\ AF(Prev2) = \h1230 /\ Prev2.SP = \hFFFE
    /\ AF(cpu) = \h1230 /\ cpu.SP = \hFFFE

(* C6: CALL nn executed at address p with SP = s pushes p + 3 and sets    *)
(* PC = nn; a RET executed next sets PC = p + 3 and SP = s.  The pushed   *)
(* word is read where _push16 stores it.                                  *)
C6_CallRetRoundTrip ==
    ( /\ TickedTwice
      /\ Fetches(Prev2, \hCD) /\ ~Raised(Prev)
      /\ Fetches(Prev, \hC9)
      /\ Prev2.PC \in 0..65535 /\ Prev2.SP \in 0..65535 )
    => /\ Prev.PC = Operand16(Prev2)
       /\ Prev.SP = Prev2.SP - 2
       /\ RamAt(Prev, Prev2.SP - 1) * 256 + RamAt(Prev, Prev2.SP) = Prev2.PC + 3
       /\ ~Raised(cpu)
       /\ cpu.PC = Prev2.PC + 3
       /\ cpu.SP = Prev2.SP

(* the scenario of the specification: CALL 0x1234 at 0x0150, SP = 0xFFFE *)
C6_Witness ==
    /\ TickedTwice
    /\ Fetches(Prev2, \hCD) /\ Prev2.PC = \h0150 /\ Prev2.SP = \hFFFE
    /\ Fetches(Prev, \hC9) /\ Prev.PC = \h1234
    /\ cpu.PC = \h0153 /\ cpu.SP = \hFFFE

(* C7: tick() on a primary opcode of the reserved set fails with          *)
(* OpNotImplemented.                                                      *)
Reserved == { \hD3, \hDB, \hDD, \hE3, \hE4, \hEB, \hEC, \hED, \hF4, \hFC, \hFD }

C7_ReservedOpcodeFails ==
    \A op \in Reserved :
        (Ticked /\ Fetches(Prev, op)) => cpu.exc[1] = "OpNotImplemented"

C7_Witness ==
    /\ Ticked /\ Fetches(Prev, \hFD) /\ Prev.PC = \h0100
    /\ cpu.exc[1] = "OpNotImplemented"

(* C8: tick() called with PC >= 0xFF00 raises before fetching anything,   *)
(* and leaves registers, flags, SP, PC, latches and memory unchanged.     *)
C8_IoPortFault ==
    (Ticked /\ Prev.PC >= \hFF00) =>
        /\ cpu.exc = Exception("PC reached IO ports (0x%04X) after %d NOPs",
                               Prev.PC, Prev._nopslide)
        /\ SameButOutcome(Prev, cpu)

C8_Witness ==
    /\ Ticked /\ Prev.PC = \hFF00 /\ ~Raised(Prev)
    /\ cpu.exc[1] = "Exception" /\ cpu.PC = \hFF00

(* C9: when the frame loop ended on a CPU fault, crash.txt as run()       *)
(* leaves it starts with that fault's message; it starts with             *)
(* "Safe exit" only when the loop ended by host quit.                     *)
C9_CrashNamesTheFault ==
    pc = "done" =>
        IF Raised(cpu) THEN crash[1] = Str(cpu.exc) ELSE crash[1] = SafeExit

(* C10: on every path by which run() ends, no dump() call is made after   *)
(* lcd.close().                                                           *)
C10_DumpBeforeClose ==
    \A i, j \in DOMAIN events :
        (events[i] = "close" /\ events[j] = "dump") => j < i

(* run() has ended: it returned, or an exception escaped it *)
Ended == pc \in {"done", "raised"}

(* C11: the display target is released on every exit path of run(): when  *)
(* run() has returned or an exception has escaped it, lcd.close() has     *)
(* been called.                                                           *)
C11_ReleasedOnEveryExit == Ended => lcd = "closed"

(* C12: a register outside 0..255 takes the fatal path of a CPU fault:    *)
(* when run() ends with such a register, the loop has stopped, crash.txt  *)
(* holds the message, the registers and the memory dump, and the display  *)
(* is released.                                                           *)
C12_RegisterFaultPath ==
    (Ended /\ RegOutOfRange(cpu)) =>
        /\ ~running
        /\ Len(crash) = 4
        /\ lcd = "closed"

(* C13: HALT is exitable: in a session halted by the HALT instruction     *)
(* some step of the session clears the latch.                             *)
C13_HaltExitable ==
    (cpu.halt /\ pc = "loop" /\ running) => ENABLED (Next /\ ~cpu'.halt)

(* C14: the display pass is invoked only when the cycles accumulated      *)
(* since the previous pass have reached the per-frame target of 70,224;   *)
(* the accumulator is never reset at a smaller value.                     *)
C14_FrameTarget == shown = 0 \/ shown >= 70224

(* the register operand of op80..opBF and of the CB block, by opcode *)
Reg8(op) == R8[(op % 8) + 1]

(* the register forms of a row of the ALU block: all but the [HL] form *)
RegForms(base) == { base + r : r \in {0, 1, 2, 3, 4, 5, 7} }

(* tick() on s reads the prefix 0xCB and then the extended opcode op *)
FetchesCB(s, op) ==
    /\ Fetches(s, \hCB)
    /\ SrcValid(Src(s), s, s.PC + 1)
    /\ SrcAt(Src(s), s, s.PC + 1) = op

(* C15: ADC A,r and SBC A,r consume the carry left by the preceding      *)
(* instructions: in every state reached by executing instructions they   *)
(* complete, with A = (A + r + c) mod 256 and A = (A - r - c) mod 256,   *)
(* c in {0,1} the C flag before the instruction.                         *)
C15_AdcSbcUseCarry ==
    /\ \A op \in RegForms(\h88) :
          (Ticked /\ Fetches(Prev, op)) =>
              /\ ~Raised(cpu)
              /\ \E c \in {0, 1} :
                    /\ c = Prev.FLAG_C
                    /\ cpu.A = (Prev.A + getattr(Prev, Reg8(op)) + c) % 256
    /\ \A op \in RegForms(\h98) :
          (Ticked /\ Fetches(Prev, op)) =>
              /\ ~Raised(cpu)
              /\ \E c \in {0, 1} :
                    /\ c = Prev.FLAG_C
                    /\ cpu.A = (Prev.A - getattr(Prev, Reg8(op)) - c) % 256

(* C16: after ADD A,r with old accumulator a: C = 1 iff a + r > 255,     *)
(* H = 1 iff (a & 0xF) + (r & 0xF) > 15, N = 0; after SUB r or CP r:     *)
(* C = 1 iff a < r, H = 1 iff (a & 0xF) < (r & 0xF), N = 1; Z = 1 iff    *)
(* the 8-bit result is 0.                                                *)
C16_AddSubFlags ==
    /\ \A op \in RegForms(\h80) :
          (Ticked /\ Fetches(Prev, op) /\ Prev.A \in 0..255) =>
              LET a == Prev.A
                  r == getattr(Prev, Reg8(op))
              IN  /\ (cpu.FLAG_C = 1) <=> (a + r > 255)
                  /\ (cpu.FLAG_H = 1) <=> ((a % 16) + (r % 16) > 15)
                  /\ (cpu.FLAG_Z = 1) <=> ((a + r) % 256 = 0)
                  /\ cpu.FLAG_N = 0
    /\ \A op \in RegForms(\h90) \cup RegForms(\hB8) :
          (Ticked /\ Fetches(Prev, op) /\ Prev.A \in 0..255) =>
              LET a == Prev.A
                  r == getattr(Prev, Reg8(op))
              IN  /\ (cpu.FLAG_C = 1) <=> (a < r)
                  /\ (cpu.FLAG_H = 1) <=> ((a % 16) < (r % 16))
                  /\ (cpu.FLAG_Z = 1) <=> ((a - r) % 256 = 0)
                  /\ cpu.FLAG_N = 1

(* the stack word a POP executed on s reads *)
PopWord(s) == BitOr(Shl(RamAt(s, s.SP + 1), 8), RamAt(s, s.SP + 2))

(* C17: in every reachable state the low nibble of F (the low byte of    *)
(* AF) is zero; POP AF of a stack word takes the flags from bits 7..4 of *)
(* the word and drops its low nibble.                                     *)
C17_FLowNibbleZero ==
    /\ F(cpu) % 16 = 0
    /\ (Ticked /\ Fetches(Prev, \hF1) /\ ~Raised(cpu) /\ PopWord(Prev) \in 0..65535) =>
          AF(cpu) = BitAnd(PopWord(Prev), \hFFF0)

(* a POP AF has read a stack word whose low nibble is not zero *)
C17_Witness ==
    /\ Ticked /\ Fetches(Prev, \hF1) /\ ~Raised(cpu)
    /\ PopWord(Prev) = \h1234
    /\ AF(cpu) = \h1230

(* bound and values of the words written through the pair views *)
MaxViews == 5
Views == << \h1234, \hFFFF, \h0000, \h00FF, \h80F1, \hFF00 >>

HiReg == <<"B", "D", "H">>
LoReg == <<"C", "E", "L">>

(* a tick() has just written a register pair through its view: LD rr,nn  *)
(* or POP rr                                                              *)
WroteView ==
    /\ Ticked /\ ~Raised(cpu)
    /\ \E op \in { \h01, \h11, \h21, \hC1, \hD1, \hE1, \hF1 } : Fetches(Prev, op)

(* C18: the register-pair views round-trip: setting BC, DE or HL to v    *)
(* in 0..65535 then reading it yields v, with the high register v >> 8   *)
(* and the low register v & 0xFF; setting AF to v then reading it yields *)
(* v & 0xFFF0.  Checked for the operand of every LD rr,nn executed, and  *)
(* for the words of Views on every CPU a view has just written.          *)
C18_PairViewsRoundTrip ==
    /\ \A k \in 1..3 :
          (Ticked /\ Fetches(Prev, \h01 + 16 * (k - 1)) /\ ~Raised(cpu)) =>
              LET v == Operand16(Prev)
              IN  /\ getattr(cpu, QQ[k]) = v
                  /\ getattr(cpu, HiReg[k]) = Shr(v, 8)
                  /\ getattr(cpu, LoReg[k]) = BitAnd(v, \hFF)
    /\ WroteView =>
          \A i \in 1..MaxViews :
              /\ \A k \in 1..3 :
                    LET v == Views[i]
                        t == setattr(cpu, QQ[k], v)
                    IN  /\ getattr(t, QQ[k]) = v
                        /\ getattr(t, HiReg[k]) = Shr(v, 8)
                        /\ getattr(t, LoReg[k]) = BitAnd(v, \hFF)
              /\ getattr(setattr(cpu, "AF", Views[i]), "AF") = BitAnd(Views[i], \hFFF0)

(* LD BC,0x1234 has set BC through its view *)
C18_Witness ==
    /\ Ticked /\ Fetches(Prev, \h01) /\ Operand16(Prev) = \h1234
    /\ BC(Prev) # \h1234
    /\ BC(cpu) = \h1234 /\ cpu.B = \h12 /\ cpu.C = \h34

(* C19: XOR A, from any value of A and any flags, yields A = 0 with      *)
(* Z = 1 and N = H = C = 0.                                               *)
C19_XorA ==
    (Ticked /\ Fetches(Prev, \hAF)) =>
        /\ ~Raised(cpu)
        /\ cpu.A = 0
        /\ cpu.FLAG_Z = 1 /\ cpu.FLAG_N = 0 /\ cpu.FLAG_H = 0 /\ cpu.FLAG_C = 0

(* XOR A has run with A nonzero and the carry set *)
C19_Witness ==
    /\ Ticked /\ Fetches(Prev, \hAF)
    /\ Prev.A = \h10 /\ Prev.FLAG_C = 1 /\ Prev.FLAG_N = 1
    /\ cpu.A = 0 /\ cpu.FLAG_Z = 1 /\ cpu.FLAG_C = 0

(* C20: BIT b,r sets Z = 1 iff bit b of r is 0, N = 0 and H = 1, and     *)
(* leaves C and r unchanged.                                              *)
C20_BitTest ==
    \A bit \in 0..7 : \A op \in RegForms(\h40 + 8 * bit) :
        (Ticked /\ FetchesCB(Prev, op)) =>
            LET v == getattr(Prev, Reg8(op))
            IN  /\ (cpu.FLAG_Z = 1) <=> (BitAnd(v, Shl(1, bit)) = 0)
                /\ cpu.FLAG_N = 0 /\ cpu.FLAG_H = 1
                /\ cpu.FLAG_C = Prev.FLAG_C
                /\ getattr(cpu, Reg8(op)) = v

(* the extended opcodes of a row of the CB block (all eight operands) *)
CbRow(row) == { 8 * row + r : r \in 0..7 }

(* C21: each CB-prefixed RLC, RRC, RL, RR, SLA, SRA, SWAP, SRL applied   *)
(* to an operand holding v in 0..255 leaves in it a value in 0..255,     *)
(* with Z = 1 iff that stored value is 0, N = 0, H = 0, and C the bit    *)
(* shifted out (bit 7 for the left shifts, bit 0 for the right shifts,   *)
(* 0 for SWAP).                                                           *)
C21_CbShifts ==
    \A row \in 0..7 : \A op \in CbRow(row) :
        ( /\ Ticked /\ FetchesCB(Prev, op) /\ CanGet(Prev, Reg8(op))
          /\ getattr(Prev, Reg8(op)) \in 0..255 ) =>
            LET v == getattr(Prev, Reg8(op))
                stored == getattr(cpu, Reg8(op))
                out == IF row = 6 THEN 0
                       ELSE IF row \in {0, 2, 4} THEN v \div 128
                       ELSE v % 2
            IN  /\ ~Raised(cpu)
                /\ stored \in 0..255
                /\ (cpu.FLAG_Z = 1) <=> (stored = 0)
                /\ cpu.FLAG_N = 0 /\ cpu.FLAG_H = 0
                /\ cpu.FLAG_C = out

(* the opcodes of INC r / DEC r and of INC rr / DEC rr, and their operand *)
IncDec8 == { 8 * k + d : k \in 0..7, d \in {4, 5} }
IncDec16 == { 16 * k + d : k \in 0..3, d \in {3, 11} }
Reg16(op) == RR[(op \div 16) + 1]

FlagsOf(s) == << s.FLAG_Z, s.FLAG_N, s.FLAG_H, s.FLAG_C >>

(* C22: INC r and DEC r leave the C flag exactly as it was; INC rr and    *)
(* DEC rr leave all four flags unchanged and wrap modulo 65536.           *)
C22_IncDecFrame ==
    /\ \A op \in IncDec8 :
        (Ticked /\ Fetches(Prev, op)) => cpu.FLAG_C = Prev.FLAG_C
    /\ \A op \in IncDec16 :
        (Ticked /\ Fetches(Prev, op)) =>
            /\ ~Raised(cpu)
            /\ FlagsOf(cpu) = FlagsOf(Prev)
            /\ getattr(cpu, Reg16(op)) =
                   (getattr(Prev, Reg16(op)) + (IF op % 16 = 3 THEN 1 ELSE 65535)) % 65536

(* INC B has wrapped B from 0xFF to 0 with the carry clear *)
C22_Witness ==
    /\ Ticked /\ Fetches(Prev, \h04)
    /\ Prev.B = \hFF /\ Prev.FLAG_C = 0
    /\ cpu.B = 0 /\ cpu.FLAG_Z = 1 /\ cpu.FLAG_C = 0

(* C23: CPL applied twice is the identity on A, for every A in 0..255,    *)
(* and one CPL yields A xor 0xFF.                                         *)
C23_CplTwice ==
    /\ (Ticked /\ Fetches(Prev, \h2F) /\ Prev.A \in 0..255) =>
        /\ ~Raised(cpu)
        /\ cpu.A = 255 - Prev.A
    /\ (TickedTwice /\ Fetches(Prev2, \h2F) /\ Fetches(Prev, \h2F) /\ Prev2.A \in 0..255) =>
        cpu.A = Prev2.A

(* CPL ; CPL has run from A = 0xFF, through A = 0 *)
C23_Witness ==
    /\ TickedTwice /\ Fetches(Prev2, \h2F) /\ Fetches(Prev, \h2F)
    /\ Prev2.A = \hFF /\ Prev.A = 0 /\ cpu.A = \hFF

(* C24: CCF applied twice is the identity on the C flag in every          *)
(* reachable state: whatever value C holds after the preceding            *)
(* instructions, CCF then CCF leaves C with that same value.              *)
C24_CcfTwice ==
    (TickedTwice /\ Fetches(Prev2, \h3F) /\ Fetches(Prev, \h3F)) =>
        cpu.FLAG_C = Prev2.FLAG_C

(* the imm8 operand tick() on s reads *)
Operand8(s) == SrcAt(Src(s), s, s.PC + 1)

(* C25: STOP encoded as 0x10 0x00 sets the STOP latch and raises no       *)
(* fault; 0x10 followed by any other byte does not set the latch.         *)
C25_StopEncoding ==
    (Ticked /\ Fetches(Prev, \h10) /\ SrcValid(Src(Prev), Prev, Prev.PC + 1)) =>
        IF Operand8(Prev) = 0 THEN cpu.stop /\ ~Raised(cpu)
        ELSE ~cpu.stop

(* the two's-complement reading of an operand byte *)
Signed(e) == IF e >= 128 THEN e - 256 ELSE e

JrOps == { \h18, \h20, \h28, \h30, \h38 }

(* C26: signed 8-bit operands are two's complement: JR e (and a taken     *)
(* conditional JR), ADD SP,e and LD HL,SP+e apply every operand byte in   *)
(* 0x80..0xFF as e - 256 and every byte in 0x00..0x7F as e.               *)
C26_SignedOperands ==
    (Ticked /\ SrcValid(Src(Prev), Prev, Prev.PC + 1)) =>
        LET e == Operand8(Prev) IN
        /\ \A op \in JrOps :
            (Fetches(Prev, op) /\ (op = \h18 \/ Cond(Prev, op))) =>
                cpu.PC = Prev.PC + 2 + Signed(e)
        /\ Fetches(Prev, \hE8) => cpu.SP = (Prev.SP + Signed(e) + 65536) % 65536
        /\ Fetches(Prev, \hF8) => HL(cpu) = (Prev.SP + Signed(e) + 65536) % 65536

(* C27: LD (HL),A (opcode 0x77) stores A at address HL and leaves HL and  *)
(* A unchanged, for every A and every HL in RAM.                          *)
C27_StoreAAtHL ==
    (Ticked /\ Fetches(Prev, \h77) /\ HL(Prev) \in 0..(RamSize - 1)) =>
        /\ ~Raised(cpu)
        /\ RamAt(cpu, HL(Prev)) = Prev.A
        /\ HL(cpu) = HL(Prev)
        /\ cpu.A = Prev.A

(* the imm8 form of row k of the ALU block *)
AluImm(k) == \hC6 + 8 * k

(* C28: each of ADD, ADC, SUB, SBC, AND, XOR, OR and CP has an imm8 form, *)
(* and executing it with operand n leaves A and the flags exactly as the  *)
(* register form of the same operation does when the register holds n.    *)
C28_ImmediateAlu ==
    \A k \in 0..7 :
        (Ticked /\ Fetches(Prev, AluImm(k)) /\ SrcValid(Src(Prev), Prev, Prev.PC + 1)) =>
            LET r == Alu(Prev, k, Operand8(Prev))
            IN  /\ cpu.exc[1] # "OpNotImplemented"
                /\ cpu.A = r.A
                /\ FlagsOf(cpu) = FlagsOf(r)

(* packed BCD: both nibbles 0..9; the number a byte encodes, and back *)
IsBcd(x) == x \in 0..255 /\ x \div 16 <= 9 /\ x % 16 <= 9
BcdValue(x) == (x \div 16) * 10 + (x % 16)
BcdOf(n) == (n \div 10) * 16 + (n % 10)

(* C29: DAA decimal-adjusts after a BCD addition: for packed-BCD bytes x  *)
(* and y, with A = x, ADD A,y and then DAA leave A equal to the packed    *)
(* BCD encoding of (x + y) mod 100.                                       *)
C29_DaaAfterAdd ==
    \A op \in { \h80, \hC6 } :
        ( /\ TickedTwice /\ Fetches(Prev2, op) /\ Fetches(Prev, \h27)
          /\ IsBcd(Prev2.A)
          /\ IsBcd(IF op = \h80 THEN Prev2.B ELSE Operand8(Prev2)) ) =>
            LET x == Prev2.A
                y == IF op = \h80 THEN Prev2.B ELSE Operand8(Prev2)
            IN  cpu.A = BcdOf((BcdValue(x) + BcdValue(y)) % 100)

(* the load instructions, the address each reads and the register it sets *)
LoadOps == { \h0A, \h1A, \hFA } \cup { \h46 + 8 * k : k \in {0, 1, 2, 3, 4, 5, 7} }

LoadAddr(s, op) ==
    CASE op = \h0A -> BC(s) [] op = \h1A -> DE(s) [] op = \hFA -> Operand16(s)
      [] OTHER -> HL(s)

LoadDest(op) == IF op \in { \h0A, \h1A, \hFA } THEN "A" ELSE R8[((op - \h40) \div 8) + 1]

(* C30: while ram[0xFF50] is 0, a data read by a load instruction from an *)
(* address in 0x0000-0x00FF returns the boot-image byte at that address,  *)
(* not the cartridge byte underneath.                                     *)
C30_LoadsSeeBootImage ==
    \A op \in LoadOps :
        ( /\ Ticked /\ RamAt(Prev, \hFF50) = 0 /\ Fetches(Prev, op)
          /\ SrcValid(Src(Prev), Prev, Prev.PC + 1) /\ SrcValid(Src(Prev), Prev, Prev.PC + 2)
          /\ LoadAddr(Prev, op) \in 0..255 ) =>
            getattr(cpu, LoadDest(op)) = boot[LoadAddr(Prev, op) + 1]

(* the operand width of an opcode, and whether tick() on s takes the     *)
(* transfer it encodes                                                    *)
Width(op) == IF op \in Imm16Ops THEN 2 ELSE IF op \in Imm8Ops THEN 1 ELSE 0
Taken(s, op) == op \in TransferOps /\ (op \in CondOps => Cond(s, op))

(* C31: for every opcode that completes without fault and is not a taken *)
(* jump, call, return or restart, PC after tick() equals PC before + 1 +  *)
(* operand width (0, 1 for imm8, 2 for imm16), plus 1 more when the       *)
(* opcode is CB-prefixed.                                                 *)
C31_PcAdvance ==
    (Ticked /\ ~Raised(cpu)) =>
        LET op == SrcAt(Src(Prev), Prev, Prev.PC)
        IN  IF op = \hCB THEN cpu.PC = Prev.PC + 2
            ELSE ~Taken(Prev, op) => cpu.PC = Prev.PC + 1 + Width(op)

(* LD (nn),SP has run and PC has moved past its two operand bytes *)
C31_Witness ==
    /\ Ticked /\ ~Raised(cpu) /\ Fetches(Prev, \h08)
    /\ Operand16(Prev) = \hC0C0
    /\ cpu.PC = Prev.PC + 3

(* the extended opcodes whose operand is [HL] *)
CbHLForms == { 8 * k + 6 : k \in 0..31 }

(* C32: tick() returns the documented T-state count for the forms on     *)
(* memory at HL: 12 for BIT b,(HL), 16 for RES b,(HL), SET b,(HL) and the *)
(* CB-prefixed rotates, shifts and SWAP on (HL), 12 for INC (HL) and      *)
(* DEC (HL).                                                              *)
C32_HLFormCycles ==
    /\ \A op \in CbHLForms :
        (Ticked /\ FetchesCB(Prev, op) /\ ~Raised(cpu)) =>
            cpu.ret = IF op \in \h40..\h7F THEN 12 ELSE 16
    /\ \A op \in { \h34, \h35 } :
        (Ticked /\ Fetches(Prev, op) /\ ~Raised(cpu)) => cpu.ret = 12

(* C33: the boot overlay covers only 0x0000-0x00FF: while ram[0xFF50] is *)
(* 0, a tick() with PC in 0x0100..0xFEFF fetches from the cartridge/RAM   *)
(* image at that address and does not fault on the fetch; where that      *)
(* image holds a NOP, the NOP is executed.                                *)
C33_OverlayCoversFirstPage ==
    (Ticked /\ RamAt(Prev, \hFF50) = 0 /\ Prev.PC \in \h0100..\hFEFF) =>
        /\ cpu.exc # IndexError
        /\ RamAt(Prev, Prev.PC) = 0 => (~Raised(cpu) /\ cpu.PC = Prev.PC + 1)

(* the iteration adds n to the cycle accumulator (which the frame check  *)
(* then hands to the display pass and clears, once it exceeds the target) *)
Billed(n) ==
    \/ clock + n <= 1000 /\ clock' = clock + n
    \/ clock + n > 1000 /\ shown' = clock + n /\ clock' = 0

(* C34: in every frame-loop iteration that starts with the HALT or STOP  *)
(* latch set, no instruction is fetched or executed (the CPU is           *)
(* unchanged) and the cycle accumulator grows by exactly 4; in every      *)
(* other iteration it grows by exactly the value tick() returned.         *)
C34_IdleBilling ==
    [][ (pc = "loop" /\ running) =>
            IF cpu.halt \/ cpu.stop
            THEN cpu' = cpu /\ Billed(4)
            ELSE ~Raised(cpu') => (cpu' = tick(cpu) /\ Billed(cpu'.ret)) ]_vars

(* two iterations after a display pass, the second with HALT set *)
C34_Witness ==
    /\ pc = "loop" /\ running /\ cpu.halt
    /\ shown > 1000 /\ clock = 8

(* the word a PUSH, CALL or RST fetched by tick() on s puts on the stack *)
Pushes(s, op) ==
    /\ Fetches(s, op)
    /\ op \in { \hC5, \hD5, \hE5, \hF5, \hCD } \cup RstOps
PushedWord(s, op) ==
    IF op = \hCD THEN s.PC + 3
    ELSE IF op \in RstOps THEN s.PC + 1
    ELSE getattr(s, QQ[((op - \hC5) \div 16) + 1])

(* C35: stack memory layout: a PUSH (or CALL/RST) of the 16-bit value v  *)
(* executed with SP = s leaves SP = s - 2, memory[s-1] = high byte of v,  *)
(* memory[s-2] = low byte of v, and writes no cell at or above s; POP     *)
(* reads the low byte from memory[SP] and the high byte from memory[SP+1].*)
C35_StackLayout ==
    /\ \A op \in { \hC5, \hD5, \hE5, \hF5, \hCD } \cup RstOps :
        ( /\ Ticked /\ Pushes(Prev, op) /\ ~Raised(cpu)
          /\ Prev.SP \in 2..65535 /\ PushedWord(Prev, op) \in 0..65535 ) =>
            LET v == PushedWord(Prev, op)
                s == Prev.SP
            IN  /\ cpu.SP = s - 2
                /\ RamAt(cpu, s - 1) = Hi(v)
                /\ RamAt(cpu, s - 2) = Lo(v)
                /\ \A a \in DOMAIN cpu.ram : a >= s => RamAt(cpu, a) = RamAt(Prev, a)
    /\ \A k \in 1..4 :
        ( /\ Ticked /\ Fetches(Prev, \hC1 + 16 * (k - 1)) /\ ~Raised(cpu)
          /\ Prev.SP \in 0..65534 ) =>
            LET w == RamAt(Prev, Prev.SP) + 256 * RamAt(Prev, Prev.SP + 1)
            IN  getattr(cpu, QQ[k]) = IF k = 4 THEN BitAnd(w, \hFFF0) ELSE w

(* LCDC has the display and the sprites enabled *)
SpritesOn(s) == BitAnd(RamAt(s, \hFF40), \h80) # 0 /\ BitAnd(RamAt(s, \hFF40), \h02) # 0

(* C36: sprites are recognised but not rendered: a display pass run while *)
(* LCDC has bit 7 and bit 1 set completes normally, as it does with bit 1 *)
(* clear, and no fault escapes the frame loop (the registers dumped and   *)
(* the tile ids drawn being in range).                                    *)
C36_SpritesIgnored ==
    ( /\ SpritesOn(cpu) /\ ~RegOutOfRange(cpu)
      /\ TilesValid(cpu, BACKGROUND_MAP_0) /\ TilesValid(cpu, BACKGROUND_MAP_1) ) =>
        /\ pc # "raised"
        /\ update(cpu, FALSE) = update(RamSet(cpu, \hFF40, RamAt(cpu, \hFF40) - 2), FALSE)

(* C37: every memory cell always holds a byte: after any sequence of     *)
(* executed instructions each cell holds a value in 0..255; in particular *)
(* LD (nn),SP stores SP as two bytes, low byte at nn and high byte at     *)
(* nn + 1.                                                                *)
C37_CellsAreBytes ==
    /\ \A a \in DOMAIN cpu.ram : cpu.ram[a] \in 0..255
    /\ ( /\ Ticked /\ Fetches(Prev, \h08) /\ ~Raised(cpu)
         /\ Prev.SP \in 0..65535 /\ Operand16(Prev) < 65535 ) =>
            /\ RamAt(cpu, Operand16(Prev)) = Lo(Prev.SP)
            /\ RamAt(cpu, Operand16(Prev) + 1) = Hi(Prev.SP)

(* the opcodes whose handlers read a flag: RLA, RRA, CCF, ADC, SBC, the   *)
(* conditional JR, JP, CALL and RET, and PUSH AF                          *)
FlagReaders ==
    { \h17, \h1F, \h3F, \hCE, \hDE, \hF5 } \cup (\h88..\h8F) \cup (\h98..\h9F) \cup CondOps

(* C38: in every reachable state each of Z, N, H and C holds a defined    *)
(* boolean, never the undefined placeholder, so every instruction that    *)
(* reads a flag completes without a type fault.                           *)
C38_FlagsDefined ==
    /\ \A f \in { cpu.FLAG_Z, cpu.FLAG_N, cpu.FLAG_H, cpu.FLAG_C } : f \in {0, 1}
    /\ (Ticked /\ \E op \in FlagReaders : Fetches(Prev, op)) => cpu.exc # TypeError

(* the stack pointers a nest of k pushes starts from: the top of memory,  *)
(* work RAM, and the lowest one that keeps SP at 2 or above               *)
NestSPs(k) == { \hFFFF, \hD000, 2 * k + 2 }

(* C39: push and pop are last-in first-out under nesting: k PUSHes        *)
(* followed by k POPs, SP staying in 0x0002..0xFFFF, return the pushed    *)
(* words in reverse order and restore SP; an inner PUSH or POP overwrites *)
(* no byte of an outer pushed word.  On the cartridge that pushes         *)
(* NestVal(1)..NestVal(k) from SP = sp, the j-th POP returns              *)
(* NestVal(k - j + 1) and leaves SP = sp - 2 * (k - j); a PUSH or POP     *)
(* made below sp leaves the cells of the words pushed above it alone.     *)
C39_NestedLifo ==
    \A k \in 1..MaxDepth : \A sp \in NestSPs(k) :
        (Ticked /\ cpu.rom = NestCart(k, sp)) =>
            /\ \A j \in 1..k :
                 (Prev.PC = \h0103 + 4 * k + j - 1 /\ Fetches(Prev, \hC1)) =>
                     /\ ~Raised(cpu)
                     /\ BC(cpu) = NestVal(k - j + 1)
                     /\ cpu.SP = sp - 2 * (k - j)
            /\ ( /\ Prev.PC \in \h0103..(\h0103 + 5 * k - 1)
                 /\ Fetches(Prev, \hC5) \/ Fetches(Prev, \hC1)
                 /\ Prev.SP < sp ) =>
                     \A a \in (Prev.SP + 1)..sp : RamAt(cpu, a) = RamAt(Prev, a)

(* the last POP of the deepest nest has returned the first word pushed    *)
C39_Witness ==
    /\ Ticked /\ cpu.rom = NestCart(MaxDepth, \hD000)
    /\ Prev.PC = \h0103 + 5 * MaxDepth - 1 /\ Fetches(Prev, \hC1)
    /\ BC(cpu) = NestVal(1) /\ cpu.SP = \hD000 /\ Prev.SP = \hD000 - 2

(* C40: a faulting tick() changes nothing: when tick() raises             *)
(* OpNotImplemented, for a reserved opcode or for STOP with a trailing    *)
(* byte other than 0x00, PC still addresses the faulting opcode and the   *)
(* registers, flags, SP, latches and memory are unchanged.                *)
C40_FaultChangesNothing ==
    (Ticked /\ cpu.exc[1] = "OpNotImplemented") =>
        /\ cpu.PC = Prev.PC
        /\ \A f \in { "A", "B", "C", "D", "E", "H", "L", "SP",
                      "FLAG_Z", "FLAG_N", "FLAG_H", "FLAG_C",
                      "interrupts", "halt", "stop", "ram" } : cpu[f] = Prev[f]

===========================================================================
